---- MODULE Spec2Model ----
(***************************************************************************)
(* Client-side job monitoring and history synchronisation of               *)
(* static/js/app.js: the upload coordinator, the Active Job Monitor (one   *)
(* setInterval per successful upload, with its status requests in flight   *)
(* and its settle timers) and the Job List Synchronizer (fetchJobs,        *)
(* updateJobsSelectively, updateSpecificCards, renderJobs).                *)
(*                                                                         *)
(* One event loop: every action below is one callback run to completion.   *)
(* A network round trip is two steps: the step that issues the request     *)
(* and the step that runs the continuation after the await.  The content   *)
(* of a response is an input of the continuation step.                     *)
(***************************************************************************)
EXTENDS Integers, Sequences, FiniteSets, Bags, TLC

\* ------------------------------------------------------------------ bounds
\* jobs of a list response; uploads of one session
MaxJobs == 2
\* uploads of one session in RaceSpec
MaxUploads == 3
\* status requests in flight at once
MaxStatusInFlight == 2
\* list requests of the refresh interval in flight at once
MaxListInFlight == 1
\* jobs on the server in OrderSpec
MaxServerJobs == 1
\* list responses on their way back at once in OrderSpec
MaxListResps == 2

\* --------------------------------------------------------------- constants
MAX_ERRORS == 3

\* state.currentJobId = null (job ids are 1, 2, ...)
Null == 0

\* ------------------------------------------------------------ job records
TerminalStatuses == {"completed", "failed"}

\* progress is a fraction in [0,1]; the model keeps it in thousandths.
JobState(s, p, m) == [status |-> s, progress |-> p, message |-> m]

JobStates ==
    { JobState("pending", 0, ""),
      JobState("pending", 0, "Queued"),
      JobState("uploading", 500, "Queued"),
      JobState("processing", 500, "Working"),
      JobState("processing", 999, "Working"),
      JobState("completed", 1000, "Done"),
      JobState("completed", 1000, "Saved"),
      JobState("failed", 999, "Error") }

\* The job states the status endpoint answers with in the whole-system
\* specification (one active, the two terminal ones).
MonitorJobStates ==
    { JobState("processing", 500, "Working"),
      JobState("completed", 1000, "Done"),
      JobState("failed", 999, "") }

JobRecord(id, st) ==
    [job_id |-> id, status |-> st.status, progress |-> st.progress,
     message |-> st.message, created_at |-> id]

\* Every list the list endpoint can answer with over the first n job ids:
\* at most one record per id, in creation order (oldest first).
RECURSIVE SnapshotsUpTo(_, _)
SnapshotsUpTo(n, states) ==
    IF n = 0 THEN { <<>> }
    ELSE LET prev == SnapshotsUpTo(n - 1, states)
         IN  prev \cup { Append(s, JobRecord(n, st)) : s \in prev, st \in states }

Snapshots == SnapshotsUpTo(MaxJobs, JobStates)

\* The lists the list endpoint answers with in the whole-system specification.
SystemSnapshots == SnapshotsUpTo(1, { JobState("completed", 1000, "Done") })

\* ------------------------------------------------------------------ files
\* A file name is a sequence of characters.
PdfLower == <<".", "p", "d", "f">>

FileB == <<"B", ".", "P", "D", "F">>

FileT == <<"n", ".", "t", "x", "t">>

FileInputs == { <<FileB, FileT>>, <<FileT>> }

ToLowerChar(c) ==
    CASE c = "P" -> "p"
      [] c = "D" -> "d"
      [] c = "F" -> "f"
      [] c = "B" -> "b"
      [] OTHER -> c

ToLowerCase(name) == [i \in 1..Len(name) |-> ToLowerChar(name[i])]

EndsWith(name, suffix) ==
    /\ Len(name) >= Len(suffix)
    /\ SubSeq(name, Len(name) - Len(suffix) + 1, Len(name)) = suffix

IsPdfCaseSensitive(name) == EndsWith(name, PdfLower)

IsPdf(name) == EndsWith(ToLowerCase(name), PdfLower)

\* ------------------------------------------------------------------ state
VARIABLES
    selectedFiles,    \* state.selectedFiles
    currentJobId,     \* state.currentJobId
    jobs,             \* state.jobs, the Client Job Cache
    refreshInterval,  \* state.refreshInterval is set (the 2 s timer runs)
    hidden,           \* the 'hidden' class of the elements the code toggles
    historyList,      \* the cards of elements.historyList, in document order
    display,          \* statusTitle / statusMessage / progressText
    notice,           \* the alert() raised by the last callback, or "none"
    uploading,        \* upload requests in flight
    monitors,         \* one entry per startJobMonitoring() call
    statusReqs,       \* status requests in flight (a bag of [mon, job])
    listReqs,         \* list requests in flight
    rendered,         \* what the last callback did to the cards (trace)
    serverJobs,       \* the job list of the server (OrderSpec)
    listResps         \* list responses on their way back (OrderSpec, a bag)

vars == <<selectedFiles, currentJobId, jobs, refreshInterval, hidden,
          historyList, display, notice, uploading, monitors, statusReqs,
          listReqs, rendered, serverJobs, listResps>>

\* The server and the responses it has produced.  Only the specification
\* with an explicit server (OrderSpec) moves them; in the others the
\* content of a response is an input of the continuation that handles it.
netVars == <<serverJobs, listResps>>

uploadVars == <<selectedFiles, currentJobId, hidden, display, uploading,
                monitors, statusReqs>>

historyVars == <<jobs, historyList>>

InitialDisplay == [title |-> "(initial)", message |-> "(initial)", pct |-> -1]

\* rendered.full: renderJobs() ran; rendered.replaced: the job ids whose
\* card updateSpecificCards() replaced in place, in order;
\* rendered.fetchFailed: the callback was the failure branch of fetchJobs().
NoRender == [full |-> FALSE, replaced |-> <<>>, fetchFailed |-> FALSE]

FullRender == [NoRender EXCEPT !.full = TRUE]

Init ==
    /\ rendered = NoRender
    /\ selectedFiles = <<>>
    /\ currentJobId = Null
    /\ jobs = <<>>
    /\ refreshInterval = TRUE
    /\ hidden = [uploadArea |-> FALSE, fileList |-> TRUE, uploadActions |-> TRUE,
                 processingStatus |-> TRUE, historyLoading |-> FALSE,
                 historyEmpty |-> TRUE, historyList |-> TRUE]
    /\ historyList = <<>>
    /\ display = InitialDisplay
    /\ notice = "none"
    /\ uploading = 0
    /\ monitors = <<>>
    /\ statusReqs = EmptyBag
    /\ listReqs = 1
    /\ serverJobs = <<>>
    /\ listResps = EmptyBag

\* The visible view: "processing" while the processing surface is shown.
View == IF hidden.processingStatus THEN "selecting" ELSE "processing"

\* ------------------------------------------------------ Selection Manager
FilterPdf(files) == SelectSeq(files, IsPdf)

\* renderFileList(): the list and the action controls are shown exactly when
\* the selection is non-empty.
RenderFileList(h, files) ==
    IF files = <<>>
    THEN [h EXCEPT !.fileList = TRUE, !.uploadActions = TRUE]
    ELSE [h EXCEPT !.fileList = FALSE, !.uploadActions = FALSE]

HandleFiles(files) ==
    /\ rendered' = NoRender
    /\ ~hidden.uploadArea
    /\ LET pdfFiles == FilterPdf(files)
       IN  IF pdfFiles = <<>>
           THEN /\ notice' = "NoValidFiles"
                /\ UNCHANGED <<selectedFiles, hidden>>
           ELSE /\ selectedFiles' = pdfFiles
                /\ hidden' = RenderFileList(hidden, pdfFiles)
                /\ notice' = "none"
    /\ UNCHANGED <<currentJobId, jobs, refreshInterval, historyList, display,
                   uploading, monitors, statusReqs, listReqs>>
    /\ UNCHANGED netVars

Splice(s, i) == SubSeq(s, 1, i - 1) \o SubSeq(s, i + 1, Len(s))

RemoveFile(index) ==
    /\ rendered' = NoRender
    /\ ~hidden.fileList
    /\ index \in 1..Len(selectedFiles)
    /\ selectedFiles' = Splice(selectedFiles, index)
    /\ hidden' = RenderFileList(hidden, selectedFiles')
    /\ notice' = "none"
    /\ UNCHANGED <<currentJobId, jobs, refreshInterval, historyList, display,
                   uploading, monitors, statusReqs, listReqs>>
    /\ UNCHANGED netVars

ClearFiles ==
    /\ rendered' = NoRender
    /\ ~hidden.uploadActions
    /\ selectedFiles' = <<>>
    /\ hidden' = RenderFileList(hidden, <<>>)
    /\ notice' = "none"
    /\ UNCHANGED <<currentJobId, jobs, refreshInterval, historyList, display,
                   uploading, monitors, statusReqs, listReqs>>
    /\ UNCHANGED netVars

\* ------------------------------------------------------------ resetUploadUI
ResetHidden(h) ==
    RenderFileList([h EXCEPT !.processingStatus = TRUE, !.uploadArea = FALSE], <<>>)

ResetUploadUI ==
    /\ currentJobId' = Null
    /\ selectedFiles' = <<>>
    /\ hidden' = ResetHidden(hidden)

\* ------------------------------------------------------ Upload Coordinator
\* uploadFiles() up to its await: the view switches to "processing" and one
\* upload request is in flight.  (cap bounds the uploads of a behaviour.)
UploadFiles(cap) ==
    /\ rendered' = NoRender
    /\ ~hidden.uploadActions
    /\ selectedFiles # <<>>
    /\ uploading + Len(monitors) < cap
    /\ hidden' = [hidden EXCEPT !.uploadArea = TRUE, !.fileList = TRUE,
                                !.uploadActions = TRUE, !.processingStatus = FALSE]
    /\ uploading' = uploading + 1
    /\ notice' = "none"
    /\ UNCHANGED <<selectedFiles, currentJobId, jobs, refreshInterval,
                   historyList, display, monitors, statusReqs, listReqs>>
    /\ UNCHANGED netVars

\* timer, errorCount: the closure of startJobMonitoring (checkInterval is
\* live, errorCount).  settle: setTimeout(resetUploadUI) calls pending.
\* last, streak: trace of the callback (what it handled last: "ok",
\* "terminal", "err", "404" or "settled"; and how many status requests in a
\* row failed without a 404).
NewMonitor ==
    [timer |-> TRUE, errorCount |-> 0, settle |-> 0, last |-> "none", streak |-> 0]

\* uploadFiles() after its await, response ok: state.currentJobId is set and
\* startJobMonitoring() runs (fetchJobs() is issued, the 1 s interval starts).
UploadOk ==
    /\ rendered' = NoRender
    /\ uploading > 0
    /\ uploading' = uploading - 1
    /\ currentJobId' = Len(monitors) + 1
    /\ monitors' = Append(monitors, NewMonitor)
    /\ listReqs' = listReqs + 1
    /\ notice' = "none"
    /\ UNCHANGED <<selectedFiles, jobs, refreshInterval, hidden, historyList,
                   display, statusReqs>>
    /\ UNCHANGED netVars

\* uploadFiles() after its await, response not ok or request error.
UploadFail ==
    /\ rendered' = NoRender
    /\ uploading > 0
    /\ uploading' = uploading - 1
    /\ notice' = "UploadFailed"
    /\ ResetUploadUI
    /\ UNCHANGED <<jobs, refreshInterval, historyList, display, monitors,
                   statusReqs, listReqs>>
    /\ UNCHANGED netVars

\* ------------------------------------------------------ Active Job Monitor
SetMonitor(m, rec) == [monitors EXCEPT ![m] = rec]

\* The setInterval callback up to its await: with no current job the
\* interval cancels itself, otherwise a status request for
\* state.currentJobId is issued.
MonitorTick(m) ==
    /\ rendered' = NoRender
    /\ m \in 1..Len(monitors)
    /\ monitors[m].timer
    /\ IF currentJobId = Null
       THEN /\ monitors' = SetMonitor(m, [monitors[m] EXCEPT !.timer = FALSE])
            /\ UNCHANGED statusReqs
       ELSE /\ BagCardinality(statusReqs) < MaxStatusInFlight
            /\ statusReqs' = statusReqs (+) SetToBag({[mon |-> m, job |-> currentJobId]})
            /\ UNCHANGED monitors
    /\ notice' = "none"
    /\ UNCHANGED <<selectedFiles, currentJobId, jobs, refreshInterval, hidden,
                   historyList, display, uploading, listReqs>>
    /\ UNCHANGED netVars

IsNotFoundWrongCode(httpStatus) == httpStatus = 400

IsNotFound(httpStatus) == httpStatus = 404

IsTerminalCompletedOnly(status) == status = "completed"

IsTerminal(status) == status = "completed" \/ status = "failed"

ThresholdReachedOffByOne(errorCount) == errorCount > MAX_ERRORS

ThresholdReached(errorCount) == errorCount >= MAX_ERRORS

Capitalize(status) ==
    CASE status = "pending" -> "Pending"
      [] status = "uploading" -> "Uploading"
      [] status = "processing" -> "Processing"
      [] status = "completed" -> "Completed"
      [] status = "failed" -> "Failed"

\* The thousandths t for which the double nearest to t/1000, times 100 in
\* double arithmetic, is just below a half-way point although t/10 is
\* half-way (0.145 * 100 is 14.499999999999998).
BelowHalfway == {145, 285, 565, 575}

PercentTruncated(progress) == progress \div 10

\* Math.round(progress * 100), progress in thousandths: half-way values
\* round up.
Percent(progress) ==
    IF progress \in BelowHalfway
    THEN progress \div 10
    ELSE (progress + 5) \div 10

StatusDisplay(job) ==
    [title |-> Capitalize(job.status),
     message |-> IF job.message # "" THEN job.message ELSE "Processing...",
     pct |-> Percent(job.progress)]

\* Continuation of the callback, response ok with body `job`: what it
\* assigns.
StatusOkUpdate(q, job) ==
    /\ BagIn(q, statusReqs)
    /\ statusReqs' = statusReqs (-) SetToBag({q})
    /\ display' = StatusDisplay(job)
    /\ LET mon == monitors[q.mon]
           seen == [mon EXCEPT !.errorCount = 0, !.streak = 0,
                               !.last = IF job.status \in TerminalStatuses
                                        THEN "terminal" ELSE "ok"]
       IN  monitors' = SetMonitor(q.mon,
               IF IsTerminal(job.status)
               THEN [seen EXCEPT !.timer = FALSE, !.settle = @ + 1]
               ELSE seen)
    /\ notice' = "none"

\* (a monitor that also writes the job it polled into the cache)
StatusOkWritingCache(q, job) ==
    /\ rendered' = NoRender
    /\ StatusOkUpdate(q, job)
    /\ jobs' = [i \in 1..Len(jobs) |->
                    IF jobs[i].job_id = job.job_id
                    THEN [jobs[i] EXCEPT !.status = job.status,
                                         !.progress = job.progress,
                                         !.message = job.message]
                    ELSE jobs[i]]
    /\ UNCHANGED <<selectedFiles, currentJobId, refreshInterval, hidden,
                   historyList, uploading, listReqs>>
    /\ UNCHANGED netVars

StatusOk(q, job) ==
    /\ rendered' = NoRender
    /\ StatusOkUpdate(q, job)
    /\ UNCHANGED <<selectedFiles, currentJobId, jobs, refreshInterval, hidden,
                   historyList, uploading, listReqs>>
    /\ UNCHANGED netVars

\* Continuation of the callback, response not ok with the given HTTP status
\* (0 stands for a request that failed without a response).
StatusFailed(q, httpStatus) ==
    /\ rendered' = NoRender
    /\ BagIn(q, statusReqs)
    /\ statusReqs' = statusReqs (-) SetToBag({q})
    /\ LET mon == monitors[q.mon]
       IN  IF IsNotFound(httpStatus)
           THEN /\ monitors' = SetMonitor(q.mon,
                        [mon EXCEPT !.timer = FALSE, !.last = "404", !.streak = 0])
                /\ notice' = "none"
                /\ ResetUploadUI
           ELSE LET counted == [mon EXCEPT !.errorCount = @ + 1, !.last = "err",
                                            !.streak = @ + 1]
                IN  IF ThresholdReached(counted.errorCount)
                    THEN /\ monitors' = SetMonitor(q.mon, [counted EXCEPT !.timer = FALSE])
                         /\ notice' = "LostConnection"
                         /\ ResetUploadUI
                    ELSE /\ monitors' = SetMonitor(q.mon, counted)
                         /\ notice' = "none"
                         /\ UNCHANGED <<selectedFiles, currentJobId, hidden>>
    /\ UNCHANGED <<jobs, refreshInterval, historyList, display, uploading, listReqs>>
    /\ UNCHANGED netVars

\* setTimeout(resetUploadUI, 2000) fires.
SettleTimeout(m) ==
    /\ rendered' = NoRender
    /\ m \in 1..Len(monitors)
    /\ monitors[m].settle > 0
    /\ monitors' = SetMonitor(m, [monitors[m] EXCEPT !.settle = @ - 1,
                                                     !.last = "settled"])
    /\ ResetUploadUI
    /\ notice' = "none"
    /\ UNCHANGED <<jobs, refreshInterval, historyList, display, uploading,
                   statusReqs, listReqs>>
    /\ UNCHANGED netVars

\* ---------------------------------------------------------------- Renderer
ShowsProgress(status) == status = "processing" \/ status = "uploading"

\* createJobCardHTML(job): what the card shows of the job.  (The timestamp
\* text is relative to the clock at render time and is not part of the card
\* here; status colour and icon are functions of the status.)
CreateJobCard(job) ==
    [job_id |-> job.job_id,
     status |-> job.status,
     pct |-> IF ShowsProgress(job.status) THEN Percent(job.progress) ELSE -1,
     message |-> job.message,
     canDownload |-> job.status = "completed",
     created_at |-> job.created_at]

\* [...state.jobs].sort((a, b) => new Date(b.created_at) - new Date(a.created_at)):
\* a stable sort, newest first.
RECURSIVE InsertByDate(_, _)
InsertByDate(job, sorted) ==
    IF sorted = <<>> THEN <<job>>
    ELSE IF Head(sorted).created_at <= job.created_at
         THEN <<job>> \o sorted
         ELSE <<Head(sorted)>> \o InsertByDate(job, Tail(sorted))

RECURSIVE SortByDate(_)
SortByDate(list) ==
    IF list = <<>> THEN <<>> ELSE InsertByDate(Head(list), SortByDate(Tail(list)))

RenderJobs(list) ==
    LET sortedJobs == SortByDate(list)
    IN  [i \in 1..Len(sortedJobs) |-> CreateJobCard(sortedJobs[i])]

\* ---------------------------------------------------- Job List Synchronizer
ShowEmptyHistory(h) ==
    [h EXCEPT !.historyLoading = TRUE, !.historyEmpty = FALSE, !.historyList = TRUE]

HasJob(list, id) == \E i \in 1..Len(list) : list[i].job_id = id

\* oldJobs.find(j => j.job_id === id): the first match.
FindJob(list, id) ==
    list[CHOOSE i \in 1..Len(list) :
            /\ list[i].job_id = id
            /\ \A k \in 1..(i - 1) : list[k].job_id # id]

NeedsFullRenderIdsOnly(oldJobs, newJobs) ==
    \E i \in 1..Len(newJobs) : ~HasJob(oldJobs, newJobs[i].job_id)

NeedsFullRender(oldJobs, newJobs) ==
    \/ Len(oldJobs) # Len(newJobs)
    \/ \E i \in 1..Len(newJobs) : ~HasJob(oldJobs, newJobs[i].job_id)

IsActive(status) ==
    status = "pending" \/ status = "uploading" \/ status = "processing"

JobChangedIgnoringMessage(oldJob, newJob) ==
    IF IsActive(newJob.status)
    THEN \/ oldJob.status # newJob.status
         \/ oldJob.progress # newJob.progress
    ELSE oldJob.status # newJob.status

JobChangedAnyField(oldJob, newJob) ==
    \/ oldJob.status # newJob.status
    \/ oldJob.progress # newJob.progress
    \/ oldJob.message # newJob.message

JobChanged(oldJob, newJob) ==
    IF IsActive(newJob.status)
    THEN \/ oldJob.status # newJob.status
         \/ oldJob.progress # newJob.progress
         \/ oldJob.message # newJob.message
    ELSE oldJob.status # newJob.status

JobsToUpdate(oldJobs, newJobs) ==
    LET Changed(newJob) == JobChanged(FindJob(oldJobs, newJob.job_id), newJob)
    IN  SelectSeq(newJobs, Changed)

\* updateSpecificCards(jobsToUpdate) on the cards `cards`, state.jobs being
\* already `allJobs`: each card found is replaced in place; the first card
\* not found re-renders the whole list and ends the loop.
RECURSIVE UpdateSpecificCards(_, _, _)
UpdateSpecificCards(cards, jobsToUpdate, allJobs) ==
    IF jobsToUpdate = <<>> THEN cards
    ELSE LET job == Head(jobsToUpdate)
             found == { i \in 1..Len(cards) : cards[i].job_id = job.job_id }
         IN  IF found # {}
             THEN LET first == CHOOSE i \in found : \A k \in found : i <= k
                  IN  UpdateSpecificCards([cards EXCEPT ![first] = CreateJobCard(job)],
                                          Tail(jobsToUpdate), allJobs)
             ELSE RenderJobs(allJobs)

HasCard(cards, id) == \E i \in 1..Len(cards) : cards[i].job_id = id

\* What updateSpecificCards(jobsToUpdate) does to the cards (trace): the
\* cards replaced before the first absent one, and whether it fell back to
\* renderJobs().
RECURSIVE ReplacedCards(_, _)
ReplacedCards(cards, jobsToUpdate) ==
    IF jobsToUpdate = <<>> THEN NoRender
    ELSE IF ~HasCard(cards, Head(jobsToUpdate).job_id)
         THEN FullRender
         ELSE LET rest == ReplacedCards(cards, Tail(jobsToUpdate))
              IN  [rest EXCEPT !.replaced = <<Head(jobsToUpdate).job_id>> \o @]

\* state.jobs after updateJobsSelectively(newJobs), newJobs not empty.
NewCacheOnlyOnRender(oldJobs, newJobs) ==
    IF NeedsFullRender(oldJobs, newJobs) THEN newJobs ELSE oldJobs

NewCache(oldJobs, newJobs) == newJobs

\* updateJobsSelectively(newJobs)
UpdateJobsSelectively(newJobs) ==
    IF newJobs = <<>>
    THEN /\ hidden' = ShowEmptyHistory(hidden)
         /\ rendered' = NoRender
         /\ UNCHANGED <<jobs, historyList>>
    ELSE /\ hidden' = [hidden EXCEPT !.historyLoading = TRUE, !.historyEmpty = TRUE,
                                     !.historyList = FALSE]
         /\ jobs' = NewCache(jobs, newJobs)
         /\ IF NeedsFullRender(jobs, newJobs)
            THEN /\ historyList' = RenderJobs(newJobs)
                 /\ rendered' = FullRender
            ELSE LET jobsToUpdate == JobsToUpdate(jobs, newJobs)
                 IN  /\ historyList' = UpdateSpecificCards(historyList, jobsToUpdate, newJobs)
                     /\ rendered' = ReplacedCards(historyList, jobsToUpdate)

\* The 2 s interval fires: fetchJobs() up to its await.
RefreshTick ==
    /\ rendered' = NoRender
    /\ refreshInterval
    /\ listReqs < MaxListInFlight
    /\ listReqs' = listReqs + 1
    /\ notice' = "none"
    /\ UNCHANGED <<uploadVars, historyVars, refreshInterval>>
    /\ UNCHANGED netVars

\* fetchJobs() after its await, response ok with body {jobs: newJobs}.
FetchJobsOk(newJobs) ==
    /\ listReqs > 0
    /\ listReqs' = listReqs - 1
    /\ UpdateJobsSelectively(newJobs)
    /\ notice' = "none"
    /\ UNCHANGED <<selectedFiles, currentJobId, refreshInterval, display,
                   uploading, monitors, statusReqs>>
    /\ UNCHANGED netVars

\* fetchJobs() after its await, response not ok or request error.
FetchJobsFailDroppingCache ==
    /\ rendered' = [NoRender EXCEPT !.fetchFailed = TRUE]
    /\ listReqs > 0
    /\ listReqs' = listReqs - 1
    /\ hidden' = ShowEmptyHistory(hidden)
    /\ jobs' = <<>>
    /\ historyList' = <<>>
    /\ notice' = "none"
    /\ UNCHANGED <<selectedFiles, currentJobId, refreshInterval, display,
                   uploading, monitors, statusReqs>>
    /\ UNCHANGED netVars

FetchJobsFail ==
    /\ rendered' = [NoRender EXCEPT !.fetchFailed = TRUE]
    /\ listReqs > 0
    /\ listReqs' = listReqs - 1
    /\ hidden' = ShowEmptyHistory(hidden)
    /\ notice' = "none"
    /\ UNCHANGED <<selectedFiles, currentJobId, jobs, refreshInterval,
                   historyList, display, uploading, monitors, statusReqs>>
    /\ UNCHANGED netVars

\* downloadCSV(jobId) navigates to the download URL; the navigation
\* dispatches beforeunload, whose handler is stopAutoRefresh(), and the
\* document stays (the response is a file).
DownloadCSV(i) ==
    /\ rendered' = NoRender
    /\ ~hidden.historyList
    /\ i \in 1..Len(historyList)
    /\ historyList[i].canDownload
    /\ refreshInterval' = FALSE
    /\ notice' = "none"
    /\ UNCHANGED <<uploadVars, historyVars, listReqs>>
    /\ UNCHANGED netVars

\* ------------------------------------------------------------ specification
StatusFailures == {404, 500, 0}

UserStep(cap) ==
    \/ \E files \in FileInputs : HandleFiles(files)
    \/ \E i \in 1..2 : RemoveFile(i)
    \/ ClearFiles
    \/ UploadFiles(cap)

UploadStep ==
    \/ UploadOk
    \/ UploadFail

MonitorStep ==
    \/ \E m \in 1..Len(monitors) : MonitorTick(m)
    \/ \E q \in BagToSet(statusReqs) : \E job \in MonitorJobStates :
            StatusOk(q, JobRecord(q.job, job))
    \/ \E q \in BagToSet(statusReqs) : \E code \in StatusFailures :
            StatusFailed(q, code)
    \/ \E m \in 1..Len(monitors) : SettleTimeout(m)

SyncStep ==
    \/ RefreshTick
    \/ \E newJobs \in SystemSnapshots : FetchJobsOk(newJobs)
    \/ FetchJobsFail
    \/ \E i \in 1..Len(historyList) : DownloadCSV(i)

Next == UserStep(MaxJobs) \/ UploadStep \/ MonitorStep \/ SyncStep

Spec == Init /\ [][Next]_vars

\* The upload and monitoring callbacks alone (no list response arrives).
MonitorNext == UserStep(MaxJobs) \/ UploadStep \/ MonitorStep

MonitorSpec == Init /\ [][MonitorNext]_vars

\* The same with one more upload, for the interleavings of a third upload
\* with what the first monitor left in flight.
RaceNext == UserStep(MaxUploads) \/ UploadStep \/ MonitorStep

RaceSpec == Init /\ [][RaceNext]_vars

\* The Synchronizer alone, over every list of Snapshots.
SyncNext ==
    \/ RefreshTick
    \/ FetchJobsFail
    \/ \E newJobs \in Snapshots : FetchJobsOk(newJobs)
    \/ \E i \in 1..Len(historyList) : DownloadCSV(i)

SyncSpec == Init /\ [][SyncNext]_vars

\* The progress values of the rounding specification (thousandths): the
\* ends, the middle, half-way values and their neighbours.
ProgressValues ==
    {0, 1, 4, 5, 6, 14, 15, 145, 146, 285, 494, 495, 499, 500, 501, 504, 505,
     565, 575, 994, 995, 996, 999, 1000}

ProgressRecord(id, t) == JobRecord(id, JobState("processing", t, "Working"))

\* One upload, its monitor and the Synchronizer, with a job in progress at
\* every value of ProgressValues.
RoundNext ==
    \/ \E files \in FileInputs : HandleFiles(files)
    \/ UploadFiles(1)
    \/ UploadOk
    \/ \E m \in 1..Len(monitors) : MonitorTick(m)
    \/ \E q \in BagToSet(statusReqs) : \E t \in ProgressValues :
            StatusOk(q, ProgressRecord(q.job, t))
    \/ RefreshTick
    \/ \E t \in ProgressValues : FetchJobsOk(<<ProgressRecord(1, t)>>)

RoundSpec == Init /\ [][RoundNext]_vars

\* ------------------------------------------------- an explicit server
\* The states a job goes through on the server, in order; a status only
\* moves forward.
ServerState(status) ==
    CASE status = "pending" -> JobState("pending", 0, "")
      [] status = "processing" -> JobState("processing", 500, "Working")
      [] status = "completed" -> JobState("completed", 1000, "Done")
      [] status = "failed" -> JobState("failed", 999, "Error")

ServerSuccessors(status) ==
    CASE status = "pending" -> {"processing"}
      [] status = "processing" -> {"completed", "failed"}
      [] OTHER -> {}

\* POST /api/upload of some client: the server lists one more job.
ServerCreateJob ==
    /\ Len(serverJobs) < MaxServerJobs
    /\ serverJobs' = Append(serverJobs,
                        JobRecord(Len(serverJobs) + 1, ServerState("pending")))
    /\ UNCHANGED <<uploadVars, historyVars, refreshInterval, notice, listReqs,
                   rendered, listResps>>

\* The processing engine moves job i one status forward.
ServerAdvance(i) ==
    /\ i \in 1..Len(serverJobs)
    /\ \E next \in ServerSuccessors(serverJobs[i].status) :
          serverJobs' = [serverJobs EXCEPT
                            ![i] = JobRecord(serverJobs[i].job_id, ServerState(next))]
    /\ UNCHANGED <<uploadVars, historyVars, refreshInterval, notice, listReqs,
                   rendered, listResps>>

\* GET /api/jobs is answered with the list as it is now; the response
\* travels back.
ServerAnswerList ==
    /\ listReqs > 0
    /\ BagCardinality(listResps) < MaxListResps
    /\ listReqs' = listReqs - 1
    /\ listResps' = listResps (+) SetToBag({serverJobs})
    /\ UNCHANGED <<uploadVars, historyVars, refreshInterval, notice, rendered,
                   serverJobs>>

\* fetchJobs() after its await, for a response that was on its way back:
\* responses are handled in the order they arrive, which need not be the
\* order of the requests.
FetchJobsAnswered(newJobs) ==
    /\ BagIn(newJobs, listResps)
    /\ listResps' = listResps (-) SetToBag({newJobs})
    /\ UpdateJobsSelectively(newJobs)
    /\ notice' = "none"
    /\ UNCHANGED <<selectedFiles, currentJobId, refreshInterval, display,
                   uploading, monitors, statusReqs, listReqs, serverJobs>>

OrderNext ==
    \/ ServerCreateJob
    \/ \E i \in 1..Len(serverJobs) : ServerAdvance(i)
    \/ RefreshTick
    \/ ServerAnswerList
    \/ \E newJobs \in BagToSet(listResps) : FetchJobsAnswered(newJobs)

OrderSpec == Init /\ [][OrderNext]_vars

\* The settle timer of every monitor eventually fires (a pending setTimeout
\* callback is always dispatched by the event loop).
LiveSpec ==
    /\ MonitorSpec
    /\ \A m \in 1..MaxJobs : WF_vars(SettleTimeout(m))

\* ------------------------------------------------------------------ claims
Monitors == 1..Len(monitors)

Polling(m) == monitors[m].timer

OtherFailures == StatusFailures \ {404}

\* C1: while a monitor polls, a failed status request (not a 404) stops the
\* polling, raises the connectivity notice and reverts the view to
\* "selecting" exactly when it is the third failure in a row; below that the
\* poll goes on with the view untouched; a successful response sets the
\* error counter back to zero and, unless the status is terminal, leaves the
\* interval running.
C1_ThreeFailuresInARowStop ==
    [][\A q \in BagToSet(statusReqs) :
          Polling(q.mon) =>
            /\ \A code \in OtherFailures :
                  StatusFailed(q, code) =>
                    LET third == monitors'[q.mon].streak >= 3
                    IN  /\ ~monitors'[q.mon].timer <=> third
                        /\ notice' = "LostConnection" <=> third
                        /\ third => View' = "selecting" /\ currentJobId' = Null
                        /\ ~third => UNCHANGED <<hidden, currentJobId, display>>
            /\ \A job \in MonitorJobStates :
                  StatusOk(q, JobRecord(q.job, job)) =>
                    /\ monitors'[q.mon].errorCount = 0
                    /\ job.status \notin TerminalStatuses => monitors'[q.mon].timer
                    /\ notice' = "none"
      ]_vars

C1_Witness ==
    \E m \in Monitors :
        /\ monitors[m].last = "err"
        /\ monitors[m].streak = 3
        /\ ~monitors[m].timer
        /\ notice = "LostConnection"
        /\ View = "selecting"

\* C2: a 404 answer to a status request, whatever the error count, cancels
\* the interval and reverts the view in the same callback: no settle timer,
\* no change of the error counter, no notice.
C2_NotFoundStopsAtOnce ==
    [][\A q \in BagToSet(statusReqs) :
          StatusFailed(q, 404) =>
            /\ ~monitors'[q.mon].timer
            /\ View' = "selecting"
            /\ currentJobId' = Null
            /\ monitors'[q.mon].errorCount = monitors[q.mon].errorCount
            /\ monitors'[q.mon].settle = monitors[q.mon].settle
            /\ notice' = "none"
      ]_vars

C2_Witness ==
    \E m \in Monitors :
        /\ monitors[m].last = "404"
        /\ monitors[m].errorCount = 2
        /\ monitors[m].settle = 0
        /\ ~monitors[m].timer
        /\ View = "selecting"
        /\ currentJobId = Null

\* C3: while a monitor settles (a terminal response was handled and its
\* settle timer has not fired), there is a single settle timer, the view is
\* "processing" with the terminal status displayed and the handle is set.
C3_SettlingHoldsTheView ==
    \A m \in Monitors :
        monitors[m].settle > 0 =>
            /\ monitors[m].settle = 1
            /\ View = "processing"
            /\ currentJobId # Null
            /\ display.title \in {"Completed", "Failed"}

\* C4: a terminal status response puts the monitor in "settling" (interval
\* cancelled, one more settle timer pending), and from there the monitor
\* eventually is stopped: interval cancelled, handle cleared, view
\* "selecting".
C4_TerminalLeadsToStopped ==
    /\ \A m \in 1..MaxJobs :
          (m \in Monitors /\ monitors[m].last = "terminal")
            ~> (/\ m \in Monitors
                /\ ~monitors[m].timer
                /\ currentJobId = Null
                /\ View = "selecting")
    /\ [][\A q \in BagToSet(statusReqs) : \A job \in MonitorJobStates :
            (job.status \in TerminalStatuses /\ StatusOk(q, JobRecord(q.job, job))) =>
                /\ ~monitors'[q.mon].timer
                /\ monitors'[q.mon].settle = monitors[q.mon].settle + 1
                /\ UNCHANGED <<currentJobId, hidden>>
       ]_vars

C4_Witness ==
    \E m \in Monitors :
        /\ monitors[m].last = "settled"
        /\ monitors[m].settle = 0
        /\ ~monitors[m].timer
        /\ currentJobId = Null
        /\ View = "selecting"

\* C5: once a monitor has cancelled its interval, a status response of its
\* that arrives later changes nothing: not the progress display, the view,
\* the handle, the error counter or the settle timers, and raises no notice.
C5_StoppedIsTerminal ==
    [][\A q \in BagToSet(statusReqs) :
          (/\ ~Polling(q.mon)
           /\ \/ \E job \in MonitorJobStates : StatusOk(q, JobRecord(q.job, job))
              \/ \E code \in StatusFailures : StatusFailed(q, code))
          => /\ UNCHANGED <<display, hidden, currentJobId, selectedFiles>>
             /\ monitors'[q.mon].errorCount = monitors[q.mon].errorCount
             /\ monitors'[q.mon].settle = monitors[q.mon].settle
             /\ notice' = "none"
      ]_vars

\* C6: at most one monitor interval is active.
C6_AtMostOnePollingTimer ==
    Cardinality({ m \in Monitors : Polling(m) }) <= 1

JobIdsOf(list) == { list[i].job_id : i \in 1..Len(list) }

Range(seq) == { seq[i] : i \in 1..Len(seq) }

NewestFirst(cards) ==
    \A i, k \in 1..Len(cards) : i < k => cards[i].created_at >= cards[k].created_at

\* C7 as claimed: after any successful list response, the empty one
\* included, the cache is the list of that response.
C7_CacheIsLastResponse ==
    [][\A newJobs \in Snapshots : FetchJobsOk(newJobs) => jobs' = newJobs]_vars

\* C7 as amended: after a successful list response that is not empty the
\* cache is the list of that response; an empty response leaves the cache
\* as it was.
C7_CacheIsLastNonEmptyResponse ==
    [][\A newJobs \in Snapshots :
          FetchJobsOk(newJobs) =>
            /\ newJobs # <<>> => jobs' = newJobs
            /\ newJobs = <<>> => jobs' = jobs
      ]_vars

\* The empty-history state is shown over a cache that still holds two jobs.
C7_Witness ==
    /\ Len(jobs) = 2
    /\ ~hidden.historyEmpty
    /\ hidden.historyList
    /\ listReqs = 0

\* C8: no step of the monitor (tick, status response of any kind, settle
\* timer) changes the cache or the history cards; the cache changes only in
\* the continuation of a successful list fetch.
C8_MonitorLeavesCacheAlone ==
    [][/\ MonitorStep =>
            /\ UNCHANGED <<jobs, historyList>>
            /\ hidden'.historyList = hidden.historyList
            /\ hidden'.historyEmpty = hidden.historyEmpty
            /\ ~rendered'.full /\ rendered'.replaced = <<>>
       /\ jobs' # jobs => \E newJobs \in SystemSnapshots : FetchJobsOk(newJobs)
      ]_vars

\* The monitor shows "Processing" for job 1 while the cache holds it completed.
C8_Witness ==
    /\ jobs # <<>>
    /\ jobs[1].job_id = 1 /\ jobs[1].status = "completed"
    /\ currentJobId = 1
    /\ display.title = "Processing"
    /\ \E m \in Monitors : monitors[m].last = "ok"

\* C9 as claimed: after a list response that is not empty, the history list
\* is what a full re-render of that response gives.
C9_PatchEqualsFullRender ==
    [][\A newJobs \in Snapshots :
          (newJobs # <<>> /\ FetchJobsOk(newJobs)) => historyList' = RenderJobs(newJobs)
      ]_vars

\* C9 as amended: after a list response that is not empty, the history list
\* has the cards of a full re-render of that response, in the same order,
\* except that the card of a job whose status is terminal and the same as in
\* the cache is left as it was: it shows the status of the response, but its
\* message may be an older one.
C9_PatchEqualsFullRenderButStaleMessages ==
    [][\A newJobs \in Snapshots :
          (newJobs # <<>> /\ FetchJobsOk(newJobs)) =>
            LET full == RenderJobs(newJobs)
            IN  /\ Len(historyList') = Len(full)
                /\ \A i \in 1..Len(full) :
                      \/ historyList'[i] = full[i]
                      \/ /\ full[i].status \in TerminalStatuses
                         /\ HasJob(jobs, full[i].job_id)
                         /\ FindJob(jobs, full[i].job_id).status = full[i].status
                         /\ historyList'[i] = historyList[i]
                         /\ [historyList'[i] EXCEPT !.message = full[i].message] = full[i]
      ]_vars

\* A card shows a message that is not the one of the cached record.
C9_Witness ==
    /\ ~hidden.historyList
    /\ \E i \in 1..Len(historyList) :
          /\ HasJob(jobs, historyList[i].job_id)
          /\ FindJob(jobs, historyList[i].job_id).message # historyList[i].message
          /\ FindJob(jobs, historyList[i].job_id).status = historyList[i].status

\* C10: on a list response that is not empty, if the count differs from the
\* cache's or an id of the response is not in the cache, renderJobs() runs:
\* the list becomes the cards of the response, newest first, and the cache
\* the response; otherwise renderJobs() does not run.
C10_FullRenderWhenCountOrIdsDiffer ==
    [][\A newJobs \in Snapshots :
          (newJobs # <<>> /\ FetchJobsOk(newJobs)) =>
            IF \/ Len(newJobs) # Len(jobs)
               \/ JobIdsOf(newJobs) \ JobIdsOf(jobs) # {}
            THEN /\ rendered'.full
                 /\ jobs' = newJobs
                 /\ Len(historyList') = Len(newJobs)
                 /\ Range(historyList') = { CreateJobCard(j) : j \in Range(newJobs) }
                 /\ NewestFirst(historyList')
            ELSE /\ ~rendered'.full
                 /\ Len(historyList') = Len(historyList)
      ]_vars

\* A full re-render of two jobs: the cache in the order of the response
\* (oldest first), the cards newest first.
C10_Witness ==
    /\ rendered.full
    /\ Len(jobs) = 2 /\ jobs[1].created_at < jobs[2].created_at
    /\ Len(historyList) = 2
    /\ historyList[1].job_id = jobs[2].job_id
    /\ historyList[2].job_id = jobs[1].job_id

\* C11: on a list response with the count and the job ids of the cache, the
\* cards replaced are exactly those of the jobs that are active in the
\* response with status, progress or message other than cached, or terminal
\* in the response with a status other than cached; each is replaced once,
\* by the card of the response's record, no other card changes and
\* renderJobs() does not run.
C11_PatchedCardsAreExactlyTheChangedJobs ==
    [][\A newJobs \in Snapshots :
          (/\ newJobs # <<>>
           /\ Len(newJobs) = Len(jobs)
           /\ JobIdsOf(newJobs) = JobIdsOf(jobs)
           /\ FetchJobsOk(newJobs)) =>
            LET Differs(id) ==
                    LET n == FindJob(newJobs, id)
                        o == FindJob(jobs, id)
                    IN  IF n.status \in {"pending", "uploading", "processing"}
                        THEN <<o.status, o.progress, o.message>>
                                # <<n.status, n.progress, n.message>>
                        ELSE /\ n.status \in TerminalStatuses
                             /\ o.status # n.status
                expected == { id \in JobIdsOf(newJobs) : Differs(id) }
            IN  /\ ~rendered'.full
                /\ Range(rendered'.replaced) = expected
                /\ Len(rendered'.replaced) = Cardinality(expected)
                /\ Len(historyList') = Len(historyList)
                /\ \A i \in 1..Len(historyList) :
                      IF historyList[i].job_id \in expected
                      THEN historyList'[i] =
                               CreateJobCard(FindJob(newJobs, historyList[i].job_id))
                      ELSE historyList'[i] = historyList[i]
      ]_vars

\* One card of two was replaced; the other, of a terminal job whose message
\* changed, was not.
C11_Witness ==
    /\ Len(jobs) = 2
    /\ ~rendered.full
    /\ Len(rendered.replaced) = 1
    /\ \E i \in 1..Len(historyList) :
          /\ historyList[i].job_id \notin Range(rendered.replaced)
          /\ historyList[i].status \in TerminalStatuses
          /\ historyList[i].message # FindJob(jobs, historyList[i].job_id).message

\* C12: the failure branch of a list fetch shows the empty-history state and
\* nothing else: the cache and the cards stay as they were, no notice is
\* raised, the refresh interval stays as it was and, while it runs, its
\* next tick can issue a list request again.
C12_ListFetchFailureIsAbsorbed ==
    [][FetchJobsFail =>
          /\ hidden'.historyLoading /\ ~hidden'.historyEmpty /\ hidden'.historyList
          /\ UNCHANGED <<jobs, historyList>>
          /\ UNCHANGED <<selectedFiles, currentJobId, display, monitors>>
          /\ notice' = "none"
          /\ refreshInterval' = refreshInterval
          /\ listReqs' < listReqs /\ listReqs' < MaxListInFlight
      ]_vars

\* A list fetch failed while the cache and the list held two jobs and the
\* refresh interval was running.
C12_Witness ==
    /\ rendered.fetchFailed
    /\ Len(jobs) = 2 /\ Len(historyList) = 2
    /\ ~hidden.historyEmpty /\ hidden.historyList
    /\ refreshInterval

\* C13: the selection is empty right after each of: the upload start
\* (uploadFiles() up to its await), the explicit clear, and the reset that
\* follows a terminal job (the settle timer firing).
C13_SelectionEmptyAfterStartClearReset ==
    [][(\/ UploadFiles(MaxJobs)
        \/ ClearFiles
        \/ \E m \in Monitors : SettleTimeout(m))
       => selectedFiles' = <<>>
      ]_vars

\* C14: after an upload failure, and after the failure that reaches the
\* monitor's error threshold, a notice is raised, the view is "selecting",
\* the selection is empty, the handle is null and no monitor interval is
\* live; a failed upload starts no monitor and issues no new upload.
C14_FailureLeavesRetriableState ==
    [][(\/ UploadFail
        \/ \E q \in BagToSet(statusReqs) : \E code \in OtherFailures :
              StatusFailed(q, code) /\ notice' = "LostConnection")
       => /\ notice' \in {"UploadFailed", "LostConnection"}
          /\ View' = "selecting"
          /\ selectedFiles' = <<>>
          /\ currentJobId' = Null
          /\ \A m \in 1..Len(monitors') : ~monitors'[m].timer
          /\ UploadFail => monitors' = monitors /\ uploading' = uploading - 1
      ]_vars

\* A file name the claim calls eligible: its last four characters are
\* ".pdf" in any letter case.
EligibleName(name) ==
    /\ Len(name) >= 4
    /\ name[Len(name) - 3] = "."
    /\ name[Len(name) - 2] \in {"p", "P"}
    /\ name[Len(name) - 1] \in {"d", "D"}
    /\ name[Len(name)] \in {"f", "F"}

\* C15: handleFiles(files) with at least one eligible entry leaves a
\* non-empty selection of eligible entries of files only; with none it
\* raises the NoValidFiles notice and leaves the selection and the
\* selection view as they were.
C15_AddKeepsOnlyEligibleFiles ==
    [][\A files \in FileInputs :
          HandleFiles(files) =>
            IF \E i \in 1..Len(files) : EligibleName(files[i])
            THEN /\ selectedFiles' # <<>>
                 /\ \A i \in 1..Len(selectedFiles') :
                       /\ EligibleName(selectedFiles'[i])
                       /\ selectedFiles'[i] \in Range(files)
                 /\ notice' = "none"
            ELSE /\ notice' = "NoValidFiles"
                 /\ UNCHANGED <<selectedFiles, hidden>>
      ]_vars

\* The notice was raised over a selection that still holds the one
\* eligible file of an earlier mixed pick.
C15_Witness ==
    /\ notice = "NoValidFiles"
    /\ selectedFiles = <<FileB>>
    /\ ~hidden.fileList /\ ~hidden.uploadActions

\* C16: the refresh interval started at page load runs in every state of
\* the page (it is cancelled by nothing the page does while it lives).
C16_RefreshTimerRunsUntilTeardown == refreshInterval

\* shown is t/10 rounded to a nearest integer, and an integer of 0..100.
NearestPercent(t, shown) ==
    /\ shown \in 0..100
    /\ 10 * shown - t <= 5
    /\ t - 10 * shown <= 5
    /\ t = 500 => shown = 50
    /\ t = 999 => shown = 100

\* C17: the percentage the monitor display and the history card show for a
\* progress is progress * 100 rounded to the nearest integer (0.5 shows 50,
\* 0.999 shows 100), an integer of 0..100.
C17_PercentIsRounded ==
    [][\A t \in ProgressValues :
          /\ \A q \in BagToSet(statusReqs) :
                StatusOk(q, ProgressRecord(q.job, t)) => NearestPercent(t, display'.pct)
          /\ FetchJobsOk(<<ProgressRecord(1, t)>>) =>
                \A i \in 1..Len(historyList') : NearestPercent(t, historyList'[i].pct)
      ]_vars

\* The card of a job at progress 0.999 shows 100 while the monitor display
\* shows 50.
C17_Witness ==
    /\ Len(jobs) = 1 /\ jobs[1].progress = 999
    /\ Len(historyList) = 1 /\ historyList[1].pct = 100
    /\ display.title = "Processing" /\ display.pct = 50

\* C18: while an upload is in flight or a job J is monitored (the view is
\* "processing"), the view is reverted or the handle cleared only by the
\* failure of that upload or by what answers a status request for J: a 404,
\* the failure that reaches the threshold, or the settle timer of J's
\* monitor.
C18_OnlyOwnResponsesEndMonitoring ==
    [][(/\ View = "processing"
        /\ \/ View' = "selecting"
           \/ currentJobId # Null /\ currentJobId' = Null)
       => IF currentJobId = Null
          THEN UploadFail
          ELSE \/ \E q \in BagToSet(statusReqs) : \E code \in StatusFailures :
                    q.job = currentJobId /\ StatusFailed(q, code)
               \/ /\ currentJobId \in Monitors
                  /\ SettleTimeout(currentJobId)
      ]_vars

\* C20: whenever the processing view is visible, the progress display is
\* the initial one or was written by a status response for the job now
\* monitored.
C20_DisplayIsInitialOrOfTheJob ==
    [][View' = "processing" =>
          \/ display' = InitialDisplay
          \/ /\ View = "processing"
             /\ display' = display
             /\ currentJobId' = currentJobId \/ currentJobId = Null
          \/ \E q \in BagToSet(statusReqs) : \E job \in MonitorJobStates :
                /\ q.job = currentJobId
                /\ StatusOk(q, JobRecord(q.job, job))
      ]_vars

StatusRank(status) ==
    CASE status = "pending" -> 0
      [] status = "uploading" -> 1
      [] status = "processing" -> 2
      [] OTHER -> 3

NeverBackward(before, after) ==
    \A i \in 1..Len(before) : \A k \in 1..Len(after) :
        before[i].job_id = after[k].job_id =>
            StatusRank(after[k].status) >= StatusRank(before[i].status)

\* C19: with a server whose statuses only move forward, no step moves the
\* status of a job backward, neither in the cache nor on its card, whatever
\* the order in which list responses arrive.
C19_StatusNeverMovesBackward ==
    [][/\ NeverBackward(jobs, jobs')
       /\ NeverBackward(historyList, historyList')
      ]_vars

\* C21: in every state the view is "processing" exactly when an upload is in
\* flight or the handle is set; no monitor interval is live while the view
\* is "selecting"; and the view is not "processing" with no upload in
\* flight, no live interval and no pending settle timer.
C21_ProcessingViewIffUploadOrHandle ==
    /\ View = "processing" <=> (uploading > 0 \/ currentJobId # Null)
    /\ hidden.uploadArea <=> View = "processing"
    /\ \A m \in Monitors : Polling(m) => View = "processing"
    /\ View = "processing" =>
          \/ uploading > 0
          \/ \E m \in Monitors : Polling(m) \/ monitors[m].settle > 0

UniqueIds(list) ==
    \A i, k \in 1..Len(list) : list[i].job_id = list[k].job_id => i = k

\* C22: with list responses of at most one record per job id, the cache
\* always has at most one record per id and the cards of the history list
\* are those of the ids of the cache, one each; so when a response has the
\* count and the ids of the cache, every changed job's card is found and
\* renderJobs() does not run.
C22_CardsAreTheCachedIds ==
    /\ [](/\ UniqueIds(jobs)
          /\ UniqueIds(historyList)
          /\ JobIdsOf(historyList) = JobIdsOf(jobs))
    /\ [][\A newJobs \in Snapshots :
            (/\ newJobs # <<>>
             /\ Len(newJobs) = Len(jobs)
             /\ JobIdsOf(newJobs) \subseteq JobIdsOf(jobs)
             /\ FetchJobsOk(newJobs))
            => /\ \A i \in 1..Len(newJobs) : HasCard(historyList, newJobs[i].job_id)
               /\ ~rendered'.full
          ]_vars

\* Both cards of a cache of two jobs were found and replaced in place.
C22_Witness ==
    /\ Len(jobs) = 2
    /\ Len(rendered.replaced) = 2
    /\ ~rendered.full
    /\ JobIdsOf(historyList) = {1, 2}

====
